---- MODULE Spec2Model ----
(***************************************************************************)
(* The vocabulary matching game of src/vocab/flask_vocab.py: the request   *)
(* handlers index and check over the per-client flask.session and the      *)
(* shared, read-only vocabulary WORDS.                                     *)
(*                                                                         *)
(* Strings are sequences of one-character strings.  A flask.session is a   *)
(* function from the keys it holds to their values, as a Python dict.      *)
(* LetterBag, Vocab, jumbled and config are modules of the repository      *)
(* whose code is not part of src/; they are modelled from their contracts  *)
(* in spec.md (sections 4.1, 4.2, 4.3).                                    *)
(***************************************************************************)
EXTENDS Integers, Sequences, FiniteSets, TLC

VARIABLES WORDS, CONFIG, SEED, session, response, requests, accepted

vars == <<WORDS, CONFIG, SEED, session, response, requests, accepted>>

(***************************************************************************)
(* Bounds and input domains                                                *)
(***************************************************************************)

\* longest attempt a client submits
MaxLen == 2

\* accepted responses remembered per session
MaxAccepted == 2

\* the characters a client types
Alphabet == {"a", "A", " "}

\* the clients (one flask.session each)
Sessions == {"s1", "s2"}

\* request slots of the concurrent specification
Reqs == {"r1", "r2"}

\* every text a client can submit
Attempts == UNION {[1..n -> Alphabet] : n \in 0..MaxLen}

\* the lines of the vocabulary source CONFIG.VOCAB
VocabSource ==
    << <<" ", "A">>, <<>>, <<"#", "a">>, <<"a", "a", " ">>, <<"a">>, <<"A", "a">> >>

\* the values CONFIG.SEED is configured with
SeedTexts == { <<"x">>, <<"-", "1">>, <<"0">>, <<"1">>, <<"2">> }

\* the values CONFIG.SUCCESS_AT_COUNT is configured with
SuccessCounts == {-1, 0, 1, 3}

\* the configurations: every seed with a threshold below the vocabulary size,
\* every threshold without a seed and with a seed
Configs ==
    {[SEED |-> st, SUCCESS_AT_COUNT |-> 1] : st \in SeedTexts}
    \cup {[SEED |-> st, SUCCESS_AT_COUNT |-> n] : st \in {<<"x">>, <<"2">>}, n \in SuccessCounts}

(***************************************************************************)
(* Helpers                                                                 *)
(***************************************************************************)

Range(s) == {s[i] : i \in DOMAIN s}

Min(a, b) == IF a <= b THEN a ELSE b

InList(x, l) == \E i \in DOMAIN l : l[i] = x

\* Python dict: d[k] = v
Put(d, k, v) == [x \in (DOMAIN d) \cup {k} |-> IF x = k THEN v ELSE d[x]]

\* Python dict: an empty flask.session
EmptySession == [x \in {} |-> 0]

HasKey(d, k) == k \in DOMAIN d

(***************************************************************************)
(* LetterBag (spec.md 4.1)                                                 *)
(***************************************************************************)

Count(c, s) == Cardinality({i \in DOMAIN s : s[i] = c})

\* LetterBag(s).contains(candidate): multiset inclusion on the raw characters
Contains(s, candidate) ==
    \A c \in Range(candidate) : Count(c, candidate) <= Count(c, s)

(***************************************************************************)
(* Vocab (spec.md 4.2)                                                     *)
(***************************************************************************)

Fold(c) == IF c = "A" THEN "a" ELSE c

RECURSIVE StripLeft(_)
StripLeft(w) == IF w # <<>> /\ Head(w) = " " THEN StripLeft(Tail(w)) ELSE w

RECURSIVE StripRight(_)
StripRight(w) ==
    IF w # <<>> /\ w[Len(w)] = " " THEN StripRight(SubSeq(w, 1, Len(w) - 1)) ELSE w

Strip(w) == StripRight(StripLeft(w))

\* the normal form of a word: surrounding whitespace trimmed, case folded
Normalize(w) == [i \in 1..Len(Strip(w)) |-> Fold(Strip(w)[i])]

\* blank lines and comment lines are not vocabulary entries
Skipped(line) == Strip(line) = <<>> \/ Head(Strip(line)) = "#"

RECURSIVE LoadWords(_, _)
LoadWords(lines, acc) ==
    IF lines = <<>> THEN acc
    ELSE IF Skipped(Head(lines)) \/ InList(Normalize(Head(lines)), acc)
         THEN LoadWords(Tail(lines), acc)
         ELSE LoadWords(Tail(lines), Append(acc, Normalize(Head(lines))))

\* Vocab(source): the ordered list of distinct normalized words and its index
Vocab(source) ==
    [list |-> LoadWords(source, <<>>), index |-> Range(LoadWords(source, <<>>))]

\* WORDS.as_list()
AsList(v) == v.list

\* WORDS.has(word)
Has(v, word) == Normalize(word) \in v.index

(***************************************************************************)
(* config and SEED                                                         *)
(***************************************************************************)

NoSeed == [int |-> FALSE, val |-> 0]

IntSeed(n) == [int |-> TRUE, val |-> n]

Digit(c) == CASE c = "0" -> 0 [] c = "1" -> 1 [] c = "2" -> 2 [] OTHER -> -1

RECURSIVE DigitsValue(_, _)
DigitsValue(t, acc) ==
    IF t = <<>> THEN acc ELSE DigitsValue(Tail(t), 10 * acc + Digit(Head(t)))

IsDigits(t) == t # <<>> /\ \A i \in DOMAIN t : Digit(t[i]) >= 0

\* int(SEED), None on ValueError
ParseSeed(t) ==
    IF IsDigits(t) THEN IntSeed(DigitsValue(t, 0))
    ELSE IF t # <<>> /\ Head(t) = "-" /\ IsDigits(Tail(t))
         THEN IntSeed(0 - DigitsValue(Tail(t), 0))
         ELSE NoSeed

\* SeedArg with the seed left out of the call of jumbled
SeedArg_Unseeded(seed) == NoSeed

\* seed=None if not SEED or SEED < 0 else SEED
SeedArg(seed) ==
    IF (~seed.int) \/ seed.val = 0 \/ seed.val < 0 THEN NoSeed ELSE seed

(***************************************************************************)
(* jumbled (spec.md 4.3)                                                   *)
(***************************************************************************)

RECURSIVE Concat(_, _)
Concat(list, idx) ==
    IF idx = <<>> THEN <<>> ELSE list[Head(idx)] \o Concat(list, Tail(idx))

\* every arrangement of the letters of w
Shuffles(w) ==
    {p \in [1..Len(w) -> Range(w)] : \A c \in Range(w) : Count(c, p) = Count(c, w)}

\* every selection of n distinct words, as a sequence of positions
Selections(list, n) ==
    {idx \in [1..n -> DOMAIN list] : \A i, j \in 1..n : i # j => idx[i] # idx[j]}

RotateLeft(w, k) ==
    [i \in 1..Len(w) |-> w[((i - 1 + k) % Len(w)) + 1]]

\* the seeded selection and permutation: a function of (list, n, seed)
SeededJumble(list, n, seed) ==
    LET sel == [i \in 1..n |-> ((seed + i - 1) % Len(list)) + 1]
        letters == Concat(list, sel)
    IN RotateLeft(letters, seed % Len(letters))

JumbleInRange(list, n) == 1 <= n /\ n <= Len(list)

\* the strings jumbled(list, n, seed) can return
Jumbled(list, n, seed) ==
    IF seed.int
    THEN {SeededJumble(list, n, seed.val)}
    ELSE UNION {Shuffles(Concat(list, idx)) : idx \in Selections(list, n)}

(***************************************************************************)
(* The handlers as functions of the request's flask.session                *)
(***************************************************************************)

\* min(len(flask.g.vocab), CONFIG.SUCCESS_AT_COUNT)
TargetCount(vocab, success_at_count) == Min(Len(vocab), success_at_count)

\* IndexRuns without the reset of matches: a new jumble under the old matches
IndexRuns_KeepMatches(d, vocab, success_at_count, seed) ==
    LET count == TargetCount(vocab, success_at_count)
        d1 == Put(d, "target_count", count)
        arg == SeedArg(seed)
    IN IF JumbleInRange(vocab, count)
       THEN {[session |-> Put(Put(d1, "jumble", j), "matches",
                              IF HasKey(d, "matches") THEN d.matches ELSE <<>>),
              status |-> IF count > 0 THEN 200 ELSE 500,
              count |-> count, seed |-> arg] : j \in Jumbled(vocab, count, arg)}
       ELSE {[session |-> x, status |-> 500, count |-> count, seed |-> arg] :
                 x \in {d, d1}}

\* the outcomes of index on the session d: the session it leaves, the HTTP
\* status, and the count and seed it passed to jumbled
IndexRuns(d, vocab, success_at_count, seed) ==
    LET count == TargetCount(vocab, success_at_count)
        d1 == Put(d, "target_count", count)
        arg == SeedArg(seed)
    IN IF JumbleInRange(vocab, count)
       THEN {[session |-> Put(Put(d1, "jumble", j), "matches", <<>>),
              status |-> IF count > 0 THEN 200 ELSE 500,
              count |-> count, seed |-> arg] : j \in Jumbled(vocab, count, arg)}
       ELSE \* jumbled fails after target_count was stored; the failed
            \* request may or may not save the session
            {[session |-> x, status |-> 500, count |-> count, seed |-> arg] :
                 x \in {d, d1}}

\* WordsAfterIndex with flask.g.vocab, the vocabulary's own list, cut to one word
WordsAfterIndex_Truncated(w) == [w EXCEPT !.list = SubSeq(@, 1, 1)]

\* flask.g.vocab = WORDS.as_list() and the call of jumbled read the shared
\* vocabulary; neither writes it
WordsAfterIndex(w) == w

\* flask.session.get("matches", [])
GetMatches(d) == IF HasKey(d, "matches") THEN d.matches ELSE <<>>

\* Branch with the 'not' of the first condition dropped
Branch_DroppedNot(matched, in_jumble, in_matches) ==
    IF matched /\ in_jumble /\ in_matches THEN "accept"
    ELSE IF in_matches THEN "already"
    ELSE IF ~matched THEN "not_word"
    ELSE IF ~in_jumble THEN "not_in_jumble"
    ELSE "assert"

\* Branch with the test of the vocabulary dropped from the first condition
Branch_NoWord(matched, in_jumble, in_matches) ==
    IF in_jumble /\ ~in_matches THEN "accept"
    ELSE IF in_matches THEN "already"
    ELSE IF ~matched THEN "not_word"
    ELSE IF ~in_jumble THEN "not_in_jumble"
    ELSE "assert"

\* Branch with the test of the jumble dropped from the first condition
Branch_NoJumble(matched, in_jumble, in_matches) ==
    IF matched /\ ~in_matches THEN "accept"
    ELSE IF in_matches THEN "already"
    ELSE IF ~matched THEN "not_word"
    ELSE IF ~in_jumble THEN "not_in_jumble"
    ELSE "assert"

\* Branch with the last two elif tests in the other order
Branch_Swapped(matched, in_jumble, in_matches) ==
    IF matched /\ in_jumble /\ ~in_matches THEN "accept"
    ELSE IF in_matches THEN "already"
    ELSE IF ~in_jumble THEN "not_in_jumble"
    ELSE IF ~matched THEN "not_word"
    ELSE "assert"

\* Branch with the test of matches dropped from the first condition
Branch_NoMatchesTest(matched, in_jumble, in_matches) ==
    IF matched /\ in_jumble THEN "accept"
    ELSE IF in_matches THEN "already"
    ELSE IF ~matched THEN "not_word"
    ELSE IF ~in_jumble THEN "not_in_jumble"
    ELSE "assert"

\* the branch of the if/elif chain that is taken
Branch(matched, in_jumble, in_matches) ==
    IF matched /\ in_jumble /\ ~in_matches THEN "accept"
    ELSE IF in_matches THEN "already"
    ELSE IF ~matched THEN "not_word"
    ELSE IF ~in_jumble THEN "not_in_jumble"
    ELSE "assert"

\* StoreMatch storing a new list instead of the appended one
StoreMatch_Replace(d, matches, text) == Put(d, "matches", <<text>>)

\* matches.append(text); flask.session["matches"] = matches
StoreMatch(d, matches, text) == Put(d, "matches", Append(matches, text))

\* RejectSession with the matches reset on a rejected attempt
RejectSession_Reset(d) == Put(d, "matches", <<>>)

\* the elif branches return without writing the session
RejectSession(d) == d

\* MissingJumble with both keys defaulted and the default matches stored:
\* flask.session.get("jumble", ""), flask.session.setdefault("matches", [])
MissingJumble_Defaulted(d) ==
    [session |-> Put(d, "matches", <<>>), modified |-> TRUE, status |-> 200,
     branch |-> "not_word", valid_word |-> FALSE]

\* flask.session["jumble"] of a session without a jumble: KeyError, before
\* matches is read; the request ends in an error and writes nothing
MissingJumble(d) ==
    [session |-> d, modified |-> FALSE, status |-> 500,
     branch |-> "error", valid_word |-> FALSE]

\* the outcome of check on the session d: the session it leaves, whether it
\* wrote it, the HTTP status, the branch taken and the valid_word reported
CheckRun(d, vocab, text) ==
    IF ~HasKey(d, "jumble")
    THEN MissingJumble(d)
    ELSE LET matches == GetMatches(d)
             in_jumble == Contains(d.jumble, text)
             matched == Has(vocab, text)
             branch == Branch(matched, in_jumble, InList(text, matches))
         IN [session |-> IF branch = "accept" THEN StoreMatch(d, matches, text)
                         ELSE RejectSession(d),
             modified |-> branch = "accept",
             status |-> IF branch = "assert" THEN 500 ELSE 200,
             branch |-> branch,
             valid_word |-> branch = "accept"]

(***************************************************************************)
(* Responses                                                               *)
(***************************************************************************)

NoResponse ==
    [op |-> "none", session |-> "none", text |-> <<>>, status |-> 0,
     valid_word |-> FALSE, branch |-> "none", success_count |-> 0,
     count |-> 0, seed |-> NoSeed, before |-> EmptySession]

\* what the client s gets back from index, with the session it sent
IndexResponse(s, d, out) ==
    [NoResponse EXCEPT !.op = "index", !.session = s, !.status = out.status,
                       !.count = out.count, !.seed = out.seed, !.before = d]

\* what the client s gets back from check, with the text and session it sent
CheckResponse(s, d, text, out, success_at_count) ==
    [NoResponse EXCEPT !.op = "check", !.session = s, !.text = text,
                       !.status = out.status, !.valid_word = out.valid_word,
                       !.branch = out.branch, !.before = d,
                       !.success_count =
                           IF out.status = 200 THEN success_at_count ELSE 0]

\* the log of the words reported valid to a client since its last puzzle
Log(log, text) == IF Len(log) < MaxAccepted THEN Append(log, text) ELSE log

(***************************************************************************)
(* Initial state: the module globals after import, no client yet           *)
(***************************************************************************)

NoRequest == [pc |-> "idle", session |-> "none", text |-> <<>>, local |-> EmptySession]

Init ==
    /\ WORDS = Vocab(VocabSource)
    /\ CONFIG \in Configs
    /\ SEED = ParseSeed(CONFIG.SEED)
    /\ session = [s \in Sessions |-> EmptySession]
    /\ response = NoResponse
    /\ requests = [r \in Reqs |-> NoRequest]
    /\ accepted = [s \in Sessions |-> <<>>]

(***************************************************************************)
(* Requests served one at a time                                           *)
(***************************************************************************)

index(s) ==
    /\ \E out \in IndexRuns(session[s], AsList(WORDS), CONFIG.SUCCESS_AT_COUNT, SEED) :
          /\ session' = [session EXCEPT ![s] = out.session]
          /\ response' = IndexResponse(s, session[s], out)
          /\ accepted' = [accepted EXCEPT ![s] = IF out.status = 200 THEN <<>> ELSE @]
    /\ WORDS' = WordsAfterIndex(WORDS)
    /\ UNCHANGED <<CONFIG, SEED, requests>>

check(s, text) ==
    /\ LET out == CheckRun(session[s], WORDS, text)
       IN /\ session' = [session EXCEPT ![s] = out.session]
          /\ response' = CheckResponse(s, session[s], text, out, CONFIG.SUCCESS_AT_COUNT)
          /\ accepted' = [accepted EXCEPT ![s] = IF out.valid_word THEN Log(@, text) ELSE @]
    /\ UNCHANGED <<WORDS, CONFIG, SEED, requests>>

Next ==
    \/ \E s \in Sessions : index(s)
    \/ \E s \in Sessions, text \in Attempts : check(s, text)

Spec == Init /\ [][Next]_vars

(***************************************************************************)
(* Requests served concurrently: a request takes its copy of the client's  *)
(* session when it starts and the client stores the session the response   *)
(* carries.  index reads nothing of the session and writes all of it, so   *)
(* it stays one step.                                                      *)
(***************************************************************************)

\* the texts submitted concurrently: the vocabulary words
ConcAttempts == Range(AsList(Vocab(VocabSource)))

\* lines 89-91: the request reads text, jumble and matches
CheckBegin(r, s, text) ==
    /\ requests[r].pc = "idle"
    /\ Len(accepted[s]) < MaxAccepted
    /\ requests' = [requests EXCEPT ![r] =
                       [pc |-> "run", session |-> s, text |-> text, local |-> session[s]]]
    /\ UNCHANGED <<WORDS, CONFIG, SEED, session, response, accepted>>

\* lines 94-124: the request decides on what it read, writes matches back
\* and responds
CheckEnd(r) ==
    /\ requests[r].pc = "run"
    /\ LET s == requests[r].session
           text == requests[r].text
           out == CheckRun(requests[r].local, WORDS, text)
       IN /\ session' = IF out.modified THEN [session EXCEPT ![s] = out.session]
                        ELSE session
          /\ response' = CheckResponse(s, requests[r].local, text, out,
                                       CONFIG.SUCCESS_AT_COUNT)
          /\ accepted' = [accepted EXCEPT ![s] = IF out.valid_word THEN Log(@, text) ELSE @]
    /\ requests' = [requests EXCEPT ![r] = NoRequest]
    /\ UNCHANGED <<WORDS, CONFIG, SEED>>

InitConc == Init /\ CONFIG = [SEED |-> <<"2">>, SUCCESS_AT_COUNT |-> 3]

NextConc ==
    \/ \E s \in Sessions : index(s)
    \/ \E r \in Reqs, s \in Sessions, text \in ConcAttempts : CheckBegin(r, s, text)
    \/ \E r \in Reqs : CheckEnd(r)

SpecConc == InitConc /\ [][NextConc]_vars

(***************************************************************************)
(* The last request, as the properties below read it                       *)
(***************************************************************************)

\* the last response answers a check of a session that holds a jumble
Checked == response.op = "check" /\ HasKey(response.before, "jumble")

\* the last response answers an index
Indexed == response.op = "index"

\* the session of the last request, as it is now
After == session[response.session]

\* the attempt of the last check is a vocabulary word
IsWord == Has(WORDS, response.text)

\* the attempt of the last check is spellable from the jumble it was checked on
IsSpellable == Contains(response.before.jumble, response.text)

\* the attempt of the last check was in matches already
WasFound == InList(response.text, GetMatches(response.before))

\* the value of a session key, <<>> when the key is missing
Field(d, k) == IF HasKey(d, k) THEN <<d[k]>> ELSE <<>>

IsPrefix(a, b) == Len(a) <= Len(b) /\ SubSeq(b, 1, Len(a)) = a

NoDuplicates(l) == \A i, j \in DOMAIN l : i # j => l[i] # l[j]

(***************************************************************************)
(* Properties                                                              *)
(***************************************************************************)

\* C1: a check of a vocabulary word that is spellable from the session's
\* jumble and not yet in matches reports valid_word = true, and matches
\* afterwards is the previous matches with that attempt appended once.
C1_AcceptAppends ==
    (Checked /\ IsWord /\ IsSpellable /\ ~WasFound)
        => /\ response.valid_word
           /\ HasKey(After, "matches")
           /\ After.matches = Append(GetMatches(response.before), response.text)

\* an attempt was accepted into a matches list that held a word already
C1_Witness ==
    /\ Checked /\ IsWord /\ IsSpellable /\ ~WasFound
    /\ Len(GetMatches(response.before)) >= 1

\* C2: check reports valid_word = true exactly when the attempt is a
\* vocabulary word, spellable from the jumble and not already in matches.
C2_ValidIff ==
    Checked => (response.valid_word <=> (IsWord /\ IsSpellable /\ ~WasFound))

\* a spellable vocabulary word was rejected because it was in matches
C2_Witness ==
    Checked /\ IsWord /\ IsSpellable /\ WasFound /\ ~response.valid_word

\* C3: every check takes one of the four outcome branches; the final else
\* branch with 'assert False' is never reached.
C3_AssertUnreachable ==
    /\ response.branch # "assert"
    /\ Checked => response.branch \in {"accept", "already", "not_word", "not_in_jumble"}

\* the last of the four branches was taken
C3_Witness == Checked /\ response.branch = "not_in_jumble" /\ IsWord /\ ~IsSpellable

\* C4: every index request passes min(vocabulary size, SUCCESS_AT_COUNT) to
\* the generator, that count is between 1 and the vocabulary size, and the
\* assertion target_count > 0 does not fail.
C4_TargetCountInRange ==
    Indexed => /\ response.count = Min(Len(AsList(WORDS)), CONFIG.SUCCESS_AT_COUNT)
               /\ 1 <= response.count
               /\ response.count <= Len(AsList(WORDS))
               /\ response.status = 200

\* any two sessions that hold a jumble hold the same one
SameJumbleEverywhere ==
    \A s1, s2 \in Sessions :
        (HasKey(session[s1], "jumble") /\ HasKey(session[s2], "jumble"))
            => session[s1].jumble = session[s2].jumble

\* an index request of a session that held a jumble stored the same one again
SameJumbleAgain ==
    (Indexed /\ response.status = 200 /\ HasKey(response.before, "jumble"))
        => After.jumble = response.before.jumble

\* C5 as stated: with an integer seed configured every index request passes
\* that seed and all index requests store the same jumble; the generator is
\* called unseeded only when no integer seed is configured.
C5_IntegerSeedPassed ==
    /\ Indexed => (response.seed = IF SEED.int THEN SEED ELSE NoSeed)
    /\ SEED.int => (SameJumbleEverywhere /\ SameJumbleAgain)

\* C5 (amended): with a positive integer seed configured every index request
\* passes that seed and all index requests store the same jumble; with a
\* seed that is zero, negative or no integer the generator is called unseeded.
C5_PositiveSeedPassed ==
    /\ Indexed => (response.seed = IF SEED.int /\ SEED.val > 0 THEN SEED ELSE NoSeed)
    /\ (SEED.int /\ SEED.val > 0) => (SameJumbleEverywhere /\ SameJumbleAgain)

\* both sessions hold a jumble generated with the positive seed, one of them
\* generated a second time
C5_Witness ==
    /\ SEED.int /\ SEED.val > 0
    /\ Indexed /\ response.status = 200 /\ HasKey(response.before, "jumble")
    /\ \A s \in Sessions : HasKey(session[s], "jumble")

C7_Serializable ==
    \A s \in Sessions :
        /\ \A i \in DOMAIN accepted[s] : InList(accepted[s][i], GetMatches(session[s]))
        /\ NoDuplicates(accepted[s])

\* C8: the shared vocabulary, its word set and its ordered list, is the one
\* built at start-up, whatever requests have run or are running.
C8_WordsUnchanged == WORDS = Vocab(VocabSource)

\* index and check have run and check requests of both sessions are in flight
C8_Witness ==
    /\ \A s \in Sessions : HasKey(session[s], "jumble")
    /\ \E s \in Sessions : accepted[s] # <<>>
    /\ \E r1, r2 \in Reqs :
          /\ requests[r1].pc = "run" /\ requests[r2].pc = "run"
          /\ requests[r1].session # requests[r2].session

\* the attempt of the last check is no vocabulary word, not spellable and
\* not in matches
NeitherWordNorSpellable == Checked /\ ~IsWord /\ ~IsSpellable /\ ~WasFound

\* C9 as stated: an attempt that is neither a vocabulary word nor spellable
\* reaches the final branch with 'assert False'.
C9_NeitherReachesAssert ==
    NeitherWordNorSpellable => response.branch = "assert"

\* C9 (amended): an attempt that is neither a vocabulary word nor spellable
\* takes the 'elif not matched' branch and is answered valid_word = false.
C9_NeitherIsNotWord ==
    NeitherWordNorSpellable
        => (response.branch = "not_word" /\ ~response.valid_word /\ response.status = 200)

\* such an attempt was checked and answered
C9_Witness == NeitherWordNorSpellable /\ response.status = 200

\* C10: a check that does not accept leaves the session as it was; no check
\* changes jumble or target_count or removes an entry of matches.
C10_CheckFrame ==
    response.op = "check"
        => /\ ~response.valid_word => After = response.before
           /\ Field(After, "jumble") = Field(response.before, "jumble")
           /\ Field(After, "target_count") = Field(response.before, "target_count")
           /\ IsPrefix(GetMatches(response.before), GetMatches(After))

\* an attempt was rejected in a session that holds matches
C10_Witness ==
    /\ Checked /\ ~response.valid_word /\ response.status = 200
    /\ Len(GetMatches(response.before)) >= 1
    /\ ~IsWord

\* the step is an index request of session s
IndexStep(s) == response'.op = "index" /\ response'.session = s

\* C11: every index request leaves its session with an empty matches list and
\* the freshly generated jumble and target_count, whatever the session held
\* before, and leaves the sessions of the other clients as they were.
C11_IndexStartsPuzzle ==
    [][\A s \in Sessions :
          IndexStep(s)
              => /\ HasKey(session'[s], "matches") /\ session'[s].matches = <<>>
                 /\ HasKey(session'[s], "target_count")
                 /\ session'[s].target_count = response'.count
                 /\ HasKey(session'[s], "jumble")
                 /\ session'[s].jumble \in
                        Jumbled(AsList(WORDS), response'.count, response'.seed)
                 /\ \A o \in Sessions \ {s} : session'[o] = session[o]]_vars

\* the vocabulary words spellable from the jumble of d that d has not matched
Findable(d) ==
    {w \in WORDS.index : Contains(d.jumble, w) /\ ~InList(w, GetMatches(d))}

\* C12: a session that holds a jumble has enough spellable vocabulary words
\* left to bring len(matches) to target_count by check requests, and the
\* success_count a check reports is the target_count of its session.
C12_SuccessCountIsTarget ==
    /\ \A s \in Sessions :
          HasKey(session[s], "jumble")
              => Len(GetMatches(session[s])) + Cardinality(Findable(session[s]))
                     >= session[s].target_count
    /\ (Checked /\ response.status = 200)
          => response.success_count = response.before.target_count

\* C13: with requests served one at a time, no matches list holds the same
\* raw string twice.
C13_NoDuplicateMatches ==
    \A s \in Sessions : NoDuplicates(GetMatches(session[s]))

\* a word of a matches list of two words was submitted again
C13_Witness ==
    /\ Checked /\ WasFound /\ response.branch = "already"
    /\ Len(GetMatches(After)) >= 2

\* C14: with requests served one at a time, every entry of a matches list is
\* a vocabulary word and is spellable from the jumble its session holds now.
C14_MatchesFitJumble ==
    \A s \in Sessions :
        \A i \in DOMAIN GetMatches(session[s]) :
            /\ Has(WORDS, GetMatches(session[s])[i])
            /\ HasKey(session[s], "jumble")
            /\ Contains(session[s].jumble, GetMatches(session[s])[i])

\* index replaced a jumble by one that cannot spell a word matched before
C14_Witness ==
    /\ Indexed /\ response.status = 200 /\ HasKey(response.before, "jumble")
    /\ \E i \in DOMAIN GetMatches(response.before) :
          ~Contains(After.jumble, GetMatches(response.before)[i])

\* C15: a check of a session that holds no jumble ends in an error, reports
\* no valid_word, and leaves the session as it was, without jumble and
\* without matches.
C15_CheckBeforeIndex ==
    (response.op = "check" /\ ~HasKey(response.before, "jumble"))
        => /\ response.status = 500 /\ response.branch = "error"
           /\ ~response.valid_word
           /\ After = response.before
           /\ ~HasKey(After, "jumble") /\ ~HasKey(After, "matches")

\* a session that never ran index was checked
C15_Witness ==
    /\ response.op = "check" /\ ~HasKey(response.before, "jumble")
    /\ response.before = EmptySession /\ response.text # <<>>

====
